---- MODULE Spec2Model ----
(***************************************************************************)
(* A model of weecfg/config.py: ConfigEngine.run, the driver of the        *)
(* wee_config utility, and ConfigEngine.get_stn_info, the resolver of the  *)
(* station information.                                                    *)
(*                                                                         *)
(* Python values are tagged records [t, v]:                                *)
(*   None            [t |-> "none", v |-> <<>>]                            *)
(*   True            [t |-> "bool", v |-> <<"True">>]                      *)
(*   a str           [t |-> "str",  v |-> its pieces], where a piece is    *)
(*                   either the separator "," or a maximal comma-free      *)
(*                   run of characters ("0, meter" is <<"0",","," meter">>)*)
(*   a list of str   [t |-> "list", v |-> the sequence of the pieces of    *)
(*                   each element]                                         *)
(***************************************************************************)
EXTENDS Integers, Sequences, FiniteSets, TLC

VARIABLES
    pc,               \* the position of the run
    options,          \* the parsed command line (optparse Values), by attribute
    args,             \* the positional arguments
    dist_config_dict, \* local of run: the distribution configuration
    config_dict,      \* local of run: the working configuration
    config_path,      \* local of run: the path read_config resolved
    stn_info,         \* the station information get_stn_info builds
    file_stn,         \* what weecfg.get_station_info returned
    enable_status,    \* local of run: what get_enable_status returned
    calls,            \* the calls made to the weecfg/configobj delegates, in order
    logged,           \* the messages given to self.logger.log, in order
    stdout,           \* the messages printed, in order
    written,          \* what weecfg.save was given to write, in order
    exit              \* how the process exited: <<>> while it has not

vars == <<pc, options, args, dist_config_dict, config_dict, config_path,
          stn_info, file_stn, enable_status, calls, logged, stdout, written, exit>>

----------------------------------------------------------------------------
(* Python values *)

None == [t |-> "none", v |-> <<>>]
PyTrue == [t |-> "bool", v |-> <<"True">>]
Str(pieces) == [t |-> "str", v |-> pieces]
List(elems) == [t |-> "list", v |-> elems]

\* Python's truth value: None and the empty str and list are false.
Truthy(x) == x.t # "none" /\ Len(x.v) > 0

\* a or b
PyOr(a, b) == IF Truthy(a) THEN a ELSE b

\* The number of true conditions: sum([...]) over a list of booleans.
CountTrue(conds) == Cardinality({i \in DOMAIN conds : conds[i]})

\* The end of the first field of pieces: the index of its first ",", or
\* Len + 1 when it holds none.
RECURSIVE FirstComma(_, _)
FirstComma(pieces, i) ==
    IF i > Len(pieces) THEN i
    ELSE IF pieces[i] = "," THEN i
    ELSE FirstComma(pieces, i + 1)

\* str.split(","): the fields between the separators, the empty ones included;
\* a string without separator, the empty one too, gives one field.
RECURSIVE Split(_)
Split(pieces) ==
    LET c == FirstComma(pieces, 1) IN
    IF c > Len(pieces) THEN << pieces >>
    ELSE << SubSeq(pieces, 1, c - 1) >> \o Split(SubSeq(pieces, c + 1, Len(pieces)))

----------------------------------------------------------------------------
(* The default station information *)

StnKeys == {"location", "latitude", "longitude", "altitude", "units",
            "register_this_station", "station_type", "driver"}

stn_info_defaults ==
    [ location              |-> Str(<<"My Home Town">>),
      latitude              |-> Str(<<"0.0">>),
      longitude             |-> Str(<<"0.0">>),
      altitude              |-> Str(<<"0", ",", " meter">>),
      units                 |-> Str(<<"metricwx">>),
      register_this_station |-> Str(<<"false">>),
      station_type          |-> Str(<<"Simulator">>),
      driver                |-> Str(<<"weewx.drivers.simulator">>) ]

----------------------------------------------------------------------------
(* ConfigEngine.get_stn_info *)

EmptyDict == [k \in {} |-> None]

\* dict.update: the entries of new replace and extend those of old.
Update(old, new) == new @@ old

\* hasattr(options, k) and getattr(options, k) is not None
HasOverride(opts, k) == k \in DOMAIN opts /\ opts[k].t # "none"

\* The iteration with the two tests swapped: a value of the configuration
\* file keeps the command line from overriding it.
OverrideOrDefaultFileFirst(stn, opts, k) ==
    IF k \notin DOMAIN stn
    THEN Update(stn, [x \in {k} |-> IF HasOverride(opts, k) THEN opts[k]
                                     ELSE stn_info_defaults[k]])
    ELSE stn

\* One iteration of the loop over stn_info_defaults.
OverrideOrDefault(stn, opts, k) ==
    IF HasOverride(opts, k) THEN Update(stn, [x \in {k} |-> opts[k]])
    ELSE IF k \notin DOMAIN stn THEN Update(stn, [x \in {k} |-> stn_info_defaults[k]])
    ELSE stn

\* The loop over the keys of stn_info_defaults. Each iteration reads and
\* writes its own key only, so the order of the keys does not matter.
RECURSIVE ForEachDefault(_, _, _)
ForEachDefault(stn, opts, keys) ==
    IF keys = {} THEN stn
    ELSE LET k == CHOOSE x \in keys : TRUE
         IN ForEachDefault(OverrideOrDefault(stn, opts, k), opts, keys \ {k})

\* The answers of the three prompts: prompt_for_info, prompt_for_driver and
\* prompt_for_driver_settings.
PromptedInfos == { EmptyDict, [location |-> Str(<<"Prompted Town">>)] }
PromptedDrivers(current) == { current, Str(<<"weewx.drivers.vantage">>) }
PromptedSettings == { EmptyDict, [port |-> Str(<<"/dev/ttyUSB0">>)] }

\* The part of get_stn_info that runs unless --no-prompt was given.
Prompted(stn, info, driver, settings) ==
    Update(Update(Update(stn, info), [driver |-> driver]), settings)

\* get_stn_info on the station information file of the configuration file:
\* the results it can give, one without prompts, one for each set of answers.
GetStnInfo(file, opts) ==
    LET looped == ForEachDefault(file, opts, DOMAIN stn_info_defaults) IN
    IF Truthy(opts.no_prompt) THEN { looped }
    ELSE UNION { { Prompted(looped, info, driver, settings) :
                     driver \in PromptedDrivers(Update(looped, info).driver),
                     settings \in PromptedSettings } :
                 info \in PromptedInfos }

\* The delegates get_stn_info calls, in order.
GetStnInfoCalls(opts) ==
    IF Truthy(opts.no_prompt) THEN << "get_station_info" >>
    ELSE << "get_station_info", "prompt_for_info", "prompt_for_driver",
            "prompt_for_driver_settings" >>

----------------------------------------------------------------------------
(* ConfigEngine.run: the checks of the options *)

\* A local that no statement has assigned yet.
Unbound == [t |-> "unbound", v |-> <<>>]

\* sys.exit(arg): with a message the exit code is 1.
SysExit(code, msg) ==
    /\ exit' = << [code |-> code, msg |-> msg] >>
    /\ pc' = "exited"

SkinCountMsg == "Must specify one and only one of --list-skins, --enable-skin, or --disable-skin."
VerbCountMsg == "Must specify one and only one of --install, --upgrade, or --reconfigure."
DistConfigMsg == "The commands --install and --upgrade require option --dist-config."
UpgradeConfigMsg == "The command --upgrade requires an existing configuration file."
InstallOutputMsg == "The --install command requires option --output."
InstallConfigMsg == "A configuration file cannot be used with the --install command."
DistOpenMsg == "Unable to open distribution configuration file: %s"
DistSyntaxMsg == "Syntax error in distribution configuration file '%s': %s"
ConfigSyntaxMsg == "Syntax error in configuration file: %s"
ConfigOpenMsg == "Unable to open configuration file: %s"
LogicErrorMsg == "Internal logic error in config.py"

skin_option_count(o) ==
    CountTrue(<< o.list_skins # None, o.enable_skin # None, o.disable_skin # None >>)

\* The checks without the one for the missing --output of --install.
UsageErrorNoOutputCheck(o, a) ==
    IF skin_option_count(o) > 1 THEN SkinCountMsg
    ELSE IF /\ skin_option_count(o) # 1
            /\ CountTrue(<< o.install # None, o.upgrade # None, o.reconfigure # None >>) # 1
         THEN VerbCountMsg
    ELSE IF (Truthy(o.install) \/ Truthy(o.upgrade)) /\ ~Truthy(o.dist_config)
         THEN DistConfigMsg
    ELSE IF Truthy(o.upgrade) /\ ~Truthy(PyOr(o.config_path, a))
         THEN UpgradeConfigMsg
    ELSE IF Truthy(o.install) /\ Truthy(PyOr(o.config_path, a))
         THEN InstallConfigMsg
    ELSE ""

\* The checks between the two early exits and "Now run the commands": the
\* message of the first check that fails, "" when none does.
UsageError(o, a) ==
    IF skin_option_count(o) > 1 THEN SkinCountMsg
    ELSE IF /\ skin_option_count(o) # 1
            /\ CountTrue(<< o.install # None, o.upgrade # None, o.reconfigure # None >>) # 1
         THEN VerbCountMsg
    ELSE IF (Truthy(o.install) \/ Truthy(o.upgrade)) /\ ~Truthy(o.dist_config)
         THEN DistConfigMsg
    ELSE IF Truthy(o.upgrade) /\ ~Truthy(PyOr(o.config_path, a))
         THEN UpgradeConfigMsg
    ELSE IF Truthy(o.install) /\ ~Truthy(o.output)
         THEN InstallOutputMsg
    ELSE IF Truthy(o.install) /\ Truthy(PyOr(o.config_path, a))
         THEN InstallConfigMsg
    ELSE ""

\* if options.version: print the version and exit.
PrintVersion ==
    /\ pc = "start"
    /\ Truthy(options.version)
    /\ stdout' = Append(stdout, "weewx.__version__")
    /\ SysExit(0, "")
    /\ UNCHANGED <<options, args, dist_config_dict, config_dict, config_path,
                   stn_info, file_stn, enable_status, calls, logged, written>>

\* if options.list_drivers: print the drivers and exit.
PrintDrivers ==
    /\ pc = "start"
    /\ ~Truthy(options.version)
    /\ Truthy(options.list_drivers)
    /\ calls' = Append(calls, "print_drivers")
    /\ SysExit(0, "")
    /\ UNCHANGED <<options, args, dist_config_dict, config_dict, config_path,
                   stn_info, file_stn, enable_status, logged, stdout, written>>

\* The checks of the options: exit with the message of the first that fails.
CheckOptions ==
    /\ pc = "start"
    /\ ~Truthy(options.version)
    /\ ~Truthy(options.list_drivers)
    /\ IF UsageError(options, args) # ""
       THEN SysExit(1, UsageError(options, args))
       ELSE pc' = "altitude" /\ UNCHANGED exit
    /\ UNCHANGED <<options, args, dist_config_dict, config_dict, config_path,
                   stn_info, file_stn, enable_status, calls, logged, stdout, written>>

\* First, fiddle with option --altitude to convert it into a list.
FiddleAltitude ==
    /\ pc = "altitude"
    /\ options' = IF Truthy(options.altitude)
                  THEN [options EXCEPT !.altitude = List(Split(options.altitude.v))]
                  ELSE options
    /\ pc' = "load_dist"
    /\ UNCHANGED <<args, dist_config_dict, config_dict, config_path, stn_info,
                   file_stn, enable_status, calls, logged, stdout, written, exit>>

----------------------------------------------------------------------------
(* ConfigEngine.run: the load phase *)

\* A configuration: where it was read from, then the delegates that changed it.
ConfigFrom(origin) == [t |-> "config", v |-> << origin >>]
Mutated(config, by) == [config EXCEPT !.v = Append(@, by)]

LoadOutcomes == {"ok", "IOError", "SyntaxError"}

\* The path weecfg.read_config resolves: the one given, else the first
\* positional argument, else the default location.
ReadConfigPath(o, a) ==
    IF Truthy(o.config_path) THEN o.config_path
    ELSE IF Truthy(a) THEN Str(a.v[1])
    ELSE Str(<<"/home/weewx/weewx.conf">>)

\* if options.install or options.upgrade: open and parse the distribution
\* configuration file.
LoadDistConfig ==
    /\ pc = "load_dist"
    /\ IF Truthy(options.install) \/ Truthy(options.upgrade)
       THEN /\ calls' = Append(calls, "ConfigObj")
            /\ \E outcome \in LoadOutcomes :
                 CASE outcome = "ok" ->
                        /\ dist_config_dict' = ConfigFrom("dist")
                        /\ pc' = "load_config"
                        /\ UNCHANGED exit
                   [] outcome = "IOError" ->
                        SysExit(1, DistOpenMsg) /\ UNCHANGED dist_config_dict
                   [] outcome = "SyntaxError" ->
                        SysExit(1, DistSyntaxMsg) /\ UNCHANGED dist_config_dict
       ELSE /\ pc' = "load_config"
            /\ UNCHANGED <<calls, dist_config_dict, exit>>
    /\ UNCHANGED <<options, args, config_dict, config_path, stn_info, file_stn,
                   enable_status, logged, stdout, written>>

\* The install command uses the distribution config file as its input, the
\* other commands an existing config file.
LoadConfig ==
    /\ pc = "load_config"
    /\ IF Truthy(options.install)
       THEN /\ config_dict' = dist_config_dict
            /\ pc' = "dispatch"
            /\ UNCHANGED <<calls, config_path, logged, exit>>
       ELSE /\ calls' = Append(calls, "read_config")
            /\ \E outcome \in LoadOutcomes :
                 CASE outcome = "ok" ->
                        /\ config_path' = ReadConfigPath(options, args)
                        /\ config_dict' = ConfigFrom("file")
                        /\ logged' = Append(logged, "Using configuration file %s")
                        /\ pc' = "dispatch"
                        /\ UNCHANGED exit
                   [] outcome = "SyntaxError" ->
                        /\ SysExit(1, ConfigSyntaxMsg)
                        /\ UNCHANGED <<config_path, config_dict, logged>>
                   [] outcome = "IOError" ->
                        /\ SysExit(1, ConfigOpenMsg)
                        /\ UNCHANGED <<config_path, config_dict, logged>>
    /\ UNCHANGED <<options, args, dist_config_dict, stn_info, file_stn,
                   enable_status, stdout, written>>

----------------------------------------------------------------------------
(* ConfigEngine.run: the dispatch *)

\* The branch of the if/elif chain that runs: the first whose option is true.
\* (A second "elif options.disable_skin" follows the first in the source and
\* can never be taken.)
DispatchBranch(o) ==
    IF Truthy(o.upgrade) THEN "upgrade"
    ELSE IF Truthy(o.install) \/ Truthy(o.reconfigure) THEN "install_or_reconfigure"
    ELSE IF Truthy(o.list_skins) THEN "list_skins"
    ELSE IF Truthy(o.enable_skin) THEN "enable_skin"
    ELSE IF Truthy(o.disable_skin) THEN "disable_skin"
    ELSE "logic_error"

\* The upgrade branch saving the merged configuration itself, before the
\* save phase does.
UpgradeAndSave ==
    /\ pc = "dispatch"
    /\ DispatchBranch(options) = "upgrade"
    /\ calls' = calls \o << "update_and_merge", "save" >>
    /\ config_dict' = Mutated(config_dict, "update_and_merge")
    /\ written' = Append(written,
                         [config |-> config_dict',
                          output_path |-> PyOr(options.output, config_path),
                          backup |-> ~Truthy(options.no_backup),
                          backup_path |-> None])
    /\ pc' = "save"
    /\ UNCHANGED <<options, args, dist_config_dict, config_path, stn_info, file_stn,
                   enable_status, logged, stdout, exit>>

\* if options.upgrade: update the config dictionary, then merge it with the
\* distribution dictionary.
Upgrade ==
    /\ pc = "dispatch"
    /\ DispatchBranch(options) = "upgrade"
    /\ calls' = Append(calls, "update_and_merge")
    /\ config_dict' = Mutated(config_dict, "update_and_merge")
    /\ pc' = "save"
    /\ UNCHANGED <<options, args, dist_config_dict, config_path, stn_info, file_stn,
                   enable_status, logged, stdout, written, exit>>

\* The station information weecfg.get_station_info finds in the configuration.
FileStnValue(k) ==
    IF k = "altitude" THEN List(<< <<"700">>, <<"foot">> >>) ELSE Str(<<"from file">>)
FileStnInfo(keys) == [k \in keys |-> FileStnValue(k)]
RunFileStnInfos == { FileStnInfo(keys) : keys \in SUBSET {"altitude", "location"} }

\* elif options.install or options.reconfigure: extract stn_info from the
\* config_dict and the command-line options, and use it to modify the
\* configuration. After an install config_dict is dist_config_dict itself.
InstallOrReconfigure ==
    /\ pc = "dispatch"
    /\ DispatchBranch(options) = "install_or_reconfigure"
    /\ \E file \in RunFileStnInfos :
         /\ file_stn' = file
         /\ stn_info' \in GetStnInfo(file, options)
    /\ calls' = calls \o GetStnInfoCalls(options) \o << "modify_config" >>
    /\ config_dict' = Mutated(config_dict, "modify_config")
    /\ dist_config_dict' = IF Truthy(options.install) THEN config_dict'
                           ELSE dist_config_dict
    /\ pc' = "save"
    /\ UNCHANGED <<options, args, config_path, enable_status, logged, stdout,
                   written, exit>>

\* elif options.list_skins: print the skins and exit, saving nothing.
ListSkins ==
    /\ pc = "dispatch"
    /\ DispatchBranch(options) = "list_skins"
    /\ calls' = Append(calls, "print_skins")
    /\ SysExit(0, "")
    /\ UNCHANGED <<options, args, dist_config_dict, config_dict, config_path,
                   stn_info, file_stn, enable_status, logged, stdout, written>>

\* What weecfg.get_enable_status returns: 'invalid_skin_name', True, False or
\* 'undefined'; None stands for anything else.
PyFalse == [t |-> "bool", v |-> <<>>]
InvalidSkinName == Str(<<"invalid_skin_name">>)
Undefined == Str(<<"undefined">>)
EnableStatuses == { InvalidSkinName, PyTrue, PyFalse, Undefined, None }

\* The exit code of the two skin branches.
SkinExitCode(status) == IF status = InvalidSkinName THEN 1 ELSE 0

\* The report of options.enable_skin, after "enable skin '%s'".
EnableReport(status) ==
    IF status = InvalidSkinName
    THEN "invalid skin name '%s' - run '--list-skins' for a list"
    ELSE IF status = PyTrue THEN "skin '%s' is already enabled"
    ELSE IF status = PyFalse THEN "skin '%s' is disabled - enabling"
    ELSE IF status = Undefined THEN "skin '%s' enable status is undefined - enabling"
    ELSE "enable_skin unknown error for skin '%s'"

\* The report of options.disable_skin, after "disable skin '%s'".
DisableReport(status) ==
    IF status = InvalidSkinName
    THEN "invalid skin name '%s' - run '--list-skins' for a list"
    ELSE IF status = PyTrue THEN "skin '%s' is enabled - disabling"
    ELSE IF status = PyFalse THEN "skin '%s' is already disabled"
    ELSE IF status = Undefined THEN "skin '%s' enable status is undefined - enabling"
    ELSE "disable_skin unknown error for skin '%s'"

\* elif options.enable_skin: query the status of the skin, report and exit.
\* Whatever the status is, the branch only prints.
EnableSkin ==
    /\ pc = "dispatch"
    /\ DispatchBranch(options) = "enable_skin"
    /\ \E status \in EnableStatuses :
         /\ enable_status' = status
         /\ calls' = Append(calls, "get_enable_status")
         /\ stdout' = stdout \o << "enable skin '%s'", EnableReport(status) >>
         /\ SysExit(SkinExitCode(status), "")
    /\ UNCHANGED <<options, args, dist_config_dict, config_dict, config_path,
                   stn_info, file_stn, logged, written>>

\* elif options.disable_skin: query the status of the skin, report and exit.
\* Whatever the status is, the branch only prints.
DisableSkin ==
    /\ pc = "dispatch"
    /\ DispatchBranch(options) = "disable_skin"
    /\ \E status \in EnableStatuses :
         /\ enable_status' = status
         /\ calls' = Append(calls, "get_enable_status")
         /\ stdout' = stdout \o << "disable skin '%s'", DisableReport(status) >>
         /\ SysExit(SkinExitCode(status), "")
    /\ UNCHANGED <<options, args, dist_config_dict, config_dict, config_path,
                   stn_info, file_stn, logged, written>>

\* else: sys.exit("Internal logic error in config.py")
LogicError ==
    /\ pc = "dispatch"
    /\ DispatchBranch(options) = "logic_error"
    /\ SysExit(1, LogicErrorMsg)
    /\ UNCHANGED <<options, args, dist_config_dict, config_dict, config_path,
                   stn_info, file_stn, enable_status, calls, logged, stdout, written>>

----------------------------------------------------------------------------
(* ConfigEngine.run: the save phase *)

\* What weecfg.save returns: the path of the backup it made, or None. It
\* makes none when it is told not to or when there is no file to back up.
BackupPaths(make_backup) ==
    IF make_backup THEN { None, Str(<<"weewx.conf.bak">>) } ELSE { None }

\* Save weewx.conf to --output, or to the original path without it, backing
\* up any old file; then return.
Save ==
    /\ pc = "save"
    /\ calls' = Append(calls, "save")
    /\ \E backup_path \in BackupPaths(~Truthy(options.no_backup)) :
         /\ written' = Append(written,
                              [config |-> config_dict,
                               output_path |-> PyOr(options.output, config_path),
                               backup |-> ~Truthy(options.no_backup),
                               backup_path |-> backup_path])
         /\ logged' = IF Truthy(backup_path)
                      THEN Append(logged, "Saved backup to %s")
                      ELSE logged
    /\ pc' = "returned"
    /\ UNCHANGED <<options, args, dist_config_dict, config_dict, config_path,
                   stn_info, file_stn, enable_status, stdout, exit>>

----------------------------------------------------------------------------
(* The runs of wee_config *)

Flags == { None, PyTrue }
Paths(name) == { None, Str(<< name >>) }
SkinNames == { None, Str(<< >>), Str(<<"Seasons">>) }

\* The values of --altitude: not given, empty, and one to three fields.
AltitudeInputs ==
    { None, Str(<< >>), Str(<<"700">>), Str(<<"700", ",", "foot">>),
      Str(<<"700", ",", "foot", ",", "x">>) }

RunOptions ==
    [ version : Flags, list_drivers : Flags,
      list_skins : Flags, enable_skin : SkinNames, disable_skin : SkinNames,
      install : Flags, upgrade : Flags, reconfigure : Flags,
      dist_config : Paths("dist.conf"), config_path : Paths("weewx.conf"),
      output : Paths("out.conf"),
      no_backup : Flags, no_prompt : Flags, debug : {None},
      location : { None, Str(<<"Hood River">>) }, latitude : {None}, longitude : {None},
      altitude : AltitudeInputs, units : {None}, driver : {None},
      register_this_station : {None} ]

RunArgs == { List(<< >>), List(<< <<"old.conf">> >>) }

Init ==
    /\ pc = "start"
    /\ options \in RunOptions
    /\ args \in RunArgs
    /\ dist_config_dict = Unbound
    /\ config_dict = Unbound
    /\ config_path = Unbound
    /\ stn_info = Unbound
    /\ file_stn = Unbound
    /\ enable_status = Unbound
    /\ calls = << >>
    /\ logged = << >>
    /\ stdout = << >>
    /\ written = << >>
    /\ exit = << >>

Next ==
    \/ PrintVersion
    \/ PrintDrivers
    \/ CheckOptions
    \/ FiddleAltitude
    \/ LoadDistConfig
    \/ LoadConfig
    \/ Upgrade
    \/ InstallOrReconfigure
    \/ ListSkins
    \/ EnableSkin
    \/ DisableSkin
    \/ LogicError
    \/ Save

Spec == Init /\ [][Next]_vars

----------------------------------------------------------------------------
(* get_stn_info alone, on bounded inputs *)

MaxOverrides == 2   \* at most so many station options are given a value
MaxFileKeys == 2    \* at most so many station keys are in the configuration file

\* The values a station option is given: for --altitude the list run makes
\* of it or the empty string run leaves alone, for the others a string, empty
\* or not.
CliValues(k) ==
    IF k = "altitude" THEN { List(<< <<"100">>, <<"meter">> >>), Str(<< >>) }
    ELSE { Str(<<"from cli">>), Str(<< >>) }

\* The options, as far as get_stn_info reads them. The attributes of options
\* are those the option parser defines: with or without station_type.
StnOptions ==
    UNION { { [k \in attrs \cup {"no_prompt"} |->
                  IF k = "no_prompt" THEN np
                  ELSE IF k \in given THEN value[k] ELSE None] :
              value \in { f \in [given -> UNION { CliValues(k) : k \in given }] :
                            \A k \in given : f[k] \in CliValues(k) },
              np \in Flags } :
            attrs \in { StnKeys, StnKeys \ {"station_type"} },
            given \in { g \in SUBSET StnKeys : Cardinality(g) <= MaxOverrides } }

StnFileInfos ==
    { FileStnInfo(keys) : keys \in { g \in SUBSET StnKeys : Cardinality(g) <= MaxFileKeys } }

InitStn ==
    /\ pc = "get_stn_info"
    /\ options \in StnOptions
    /\ args = List(<< >>)
    /\ dist_config_dict = Unbound
    /\ config_dict = ConfigFrom("file")
    /\ config_path = Unbound
    /\ stn_info = Unbound
    /\ file_stn = Unbound
    /\ enable_status = Unbound
    /\ calls = << >>
    /\ logged = << >>
    /\ stdout = << >>
    /\ written = << >>
    /\ exit = << >>

\* stn_info = self.get_stn_info(config_dict, options)
CallGetStnInfo ==
    /\ pc = "get_stn_info"
    /\ \E file \in StnFileInfos :
         /\ file_stn' = file
         /\ stn_info' \in GetStnInfo(file, options)
    /\ calls' = calls \o GetStnInfoCalls(options)
    /\ pc' = "resolved"
    /\ UNCHANGED <<options, args, dist_config_dict, config_dict, config_path,
                   enable_status, logged, stdout, written, exit>>

NextStn == CallGetStnInfo

SpecStn == InitStn /\ [][NextStn]_vars

----------------------------------------------------------------------------
(* Definitions the properties share *)

\* The run is over: sys.exit was called or run returned.
Finished == pc \in {"exited", "returned"}

ExitedWith(code) == pc = "exited" /\ exit[1].code = code

\* How often a delegate was called.
Count(name) == Cardinality({ i \in DOMAIN calls : calls[i] = name })

SkinFlags(o) == << o.list_skins # None, o.enable_skin # None, o.disable_skin # None >>
VerbFlags(o) == << o.install # None, o.upgrade # None, o.reconfigure # None >>

\* read_config gave the existing configuration.
ConfigLoaded == config_path # Unbound

UsageMsgs == { SkinCountMsg, VerbCountMsg, DistConfigMsg, UpgradeConfigMsg,
               InstallOutputMsg, InstallConfigMsg }
LoadMsgs == { DistOpenMsg, DistSyntaxMsg, ConfigSyntaxMsg, ConfigOpenMsg }

\* The delegates that change the configuration or the files.
MutatingDelegates == { "update_and_merge", "modify_config", "save",
                       "enable_skin", "disable_skin" }
Mutations == Cardinality({ i \in DOMAIN calls : calls[i] \in MutatingDelegates })

\* The default table as the specification gives it.
SpecDefaults == [ stn_info_defaults EXCEPT !.altitude = List(<< <<"0">>, <<"meter">> >>) ]

----------------------------------------------------------------------------
(* C1 *)

\* C1: a run that got past the checks of the options has at most one of the
\* six operation flags install, upgrade, reconfigure, list_skins, enable_skin,
\* disable_skin set.
C1_MutualExclusion ==
    pc \notin {"start", "exited"} =>
        CountTrue(VerbFlags(options) \o SkinFlags(options)) <= 1

----------------------------------------------------------------------------
(* C2 *)

\* The three conditions of C2 on options without a skin flag.
C2_Rejected(o, a) ==
    /\ CountTrue(SkinFlags(o)) = 0
    /\ \/ CountTrue(VerbFlags(o)) > 1
       \/ o.install # None /\ ~Truthy(o.output)
       \/ o.install # None /\ Truthy(PyOr(o.config_path, a))

C2_UsageFailure ==
    /\ pc = "exited"
    /\ exit[1].code # 0
    /\ exit[1].msg \in UsageMsgs
    /\ calls = << >>
    /\ written = << >>

\* C2 as stated: for options without a skin flag and with more than one of
\* install, upgrade, reconfigure, or install without --output, or install
\* with a configuration file, the run ends in a usage error before any
\* delegate is called.
C2_PreflightGate_Original ==
    (pc # "start" /\ C2_Rejected(options, args)) => C2_UsageFailure

\* C2 amended: the same for the runs that ask neither for --version nor for
\* --list-drivers, which exit with code 0 before the options are checked.
C2_PreflightGate ==
    (/\ pc # "start"
     /\ ~Truthy(options.version)
     /\ ~Truthy(options.list_drivers)
     /\ C2_Rejected(options, args)) => C2_UsageFailure

\* An install without --output was rejected with its own message.
C2_Witness ==
    /\ pc = "exited"
    /\ CountTrue(SkinFlags(options)) = 0
    /\ options.install # None
    /\ ~Truthy(options.output)
    /\ exit[1] = [code |-> 1, msg |-> InstallOutputMsg]

----------------------------------------------------------------------------
(* C3 *)

\* C3: a finished run with list_skins set whose existing configuration was
\* loaded has called print_skins, has exited with code 0 and has saved nothing.
C3_ListSkinsReadOnly ==
    (Finished /\ options.list_skins # None /\ ConfigLoaded) =>
        /\ Count("print_skins") = 1
        /\ ExitedWith(0)
        /\ Count("save") = 0
        /\ written = << >>

----------------------------------------------------------------------------
(* C4 *)

\* C4: a finished run with enable_skin or disable_skin set whose existing
\* configuration was loaded has exited, with code 1 when get_enable_status
\* returned 'invalid_skin_name' and with code 0 when it returned True, False
\* or 'undefined', and has never reached the save phase.
C4_SkinToggleExit ==
    (/\ Finished
     /\ options.enable_skin # None \/ options.disable_skin # None
     /\ ConfigLoaded) =>
        /\ pc = "exited"
        /\ enable_status = InvalidSkinName => exit[1].code = 1
        /\ enable_status \in {PyTrue, PyFalse, Undefined} => exit[1].code = 0
        /\ Count("save") = 0
        /\ written = << >>

----------------------------------------------------------------------------
(* C5 *)

\* C5: when the enable_skin branch ran, a status of True left the
\* configuration unchanged with no mutation delegate called, and a status of
\* False had the mutation delegate called exactly once before the exit.
C5_EnableTransition ==
    (Finished /\ DispatchBranch(options) = "enable_skin" /\ enable_status # Unbound) =>
        /\ enable_status = PyTrue =>
             Mutations = 0 /\ config_dict = ConfigFrom("file")
        /\ enable_status = PyFalse => Mutations = 1

----------------------------------------------------------------------------
(* C6 *)

\* C6: without prompts, every key of the default table that has a
\* command-line override (the option exists and is not None) resolves to
\* the override, whatever the configuration file holds for it.
C6_PrecedenceLaw ==
    (pc = "resolved" /\ Truthy(options.no_prompt)) =>
        \A k \in DOMAIN stn_info_defaults :
            (k \in DOMAIN options /\ options[k] # None) => stn_info[k] = options[k]

\* An override has replaced a different value of the configuration file.
C6_Witness ==
    /\ pc = "resolved"
    /\ Truthy(options.no_prompt)
    /\ \E k \in DOMAIN stn_info_defaults :
         /\ k \in DOMAIN options /\ options[k] # None
         /\ k \in DOMAIN file_stn /\ file_stn[k] # options[k]
         /\ stn_info[k] = options[k]

----------------------------------------------------------------------------
(* C7 *)

\* C7: without prompts, every key of the default table that is neither in the
\* station information of the configuration file nor overridden on the
\* command line resolves to the default the specification gives for it, the
\* list ["0", "meter"] for altitude; and no key of the table is left unset.
C7_DefaultFillLaw ==
    (pc = "resolved" /\ Truthy(options.no_prompt)) =>
        /\ DOMAIN stn_info_defaults \subseteq DOMAIN stn_info
        /\ \A k \in DOMAIN stn_info_defaults :
             (k \notin DOMAIN file_stn /\ ~(k \in DOMAIN options /\ options[k] # None))
                 => stn_info[k] = SpecDefaults[k]

----------------------------------------------------------------------------
(* C8 *)

\* C8: the station information of an install or reconfigure run without
\* prompts holds a two-element sequence as altitude.
C8_AltitudeNormalized ==
    (/\ pc \in {"save", "returned"}
     /\ DispatchBranch(options) = "install_or_reconfigure"
     /\ Truthy(options.no_prompt)) =>
        stn_info.altitude.t = "list" /\ Len(stn_info.altitude.v) = 2

----------------------------------------------------------------------------
(* C9 *)

\* C9: save is called at most once; a finished run of install, upgrade or
\* reconfigure whose load and merge or modify steps were done has called it
\* exactly once, as its last delegate call; a run that ended with one of the
\* error messages, or in any other call of sys.exit, has not called it.
C9_SaveAllOrNothing ==
    /\ Count("save") <= 1
    /\ Len(written) = Count("save")
    /\ (/\ Finished
        /\ Truthy(options.install) \/ Truthy(options.upgrade) \/ Truthy(options.reconfigure)
        /\ Count("update_and_merge") + Count("modify_config") > 0) =>
           /\ Count("save") = 1
           /\ calls[Len(calls)] = "save"
    /\ (pc = "exited" /\ exit[1].msg \in UsageMsgs \cup LoadMsgs \cup {LogicErrorMsg}) =>
           Count("save") = 0
    /\ pc = "exited" => Count("save") = 0

\* An upgrade has loaded both files, merged them and saved, in this order.
C9_Witness ==
    /\ pc = "returned"
    /\ calls = << "ConfigObj", "read_config", "update_and_merge", "save" >>
    /\ Len(written) = 1

----------------------------------------------------------------------------
(* C10 *)

\* C10: no run that passed the checks of the options and loaded its
\* configuration ends in the 'Internal logic error in config.py' branch.
C10_DispatchTotal ==
    ~(pc = "exited" /\ exit[1].msg = LogicErrorMsg)

====
